---------------------------- MODULE Spec2Model ----------------------------
(***************************************************************************)
(* A state-machine model of android_tools.py: the startup in main, the     *)
(* menu dispatch, push_burp_cert, run_frida_server with choose_device and  *)
(* setup_frida_server, and the exception handlers of main and __main__.    *)
(* Text the code inspects character by character (the version argument,   *)
(* the operator's device choice, the ABI string) is a sequence of          *)
(* one-character strings; text it only compares or prints is a string.     *)
(***************************************************************************)
EXTENDS Integers, Sequences, FiniteSets, TLC

(* ------------------------------ bounds -------------------------------- *)

\* Lines of the 'adb devices' output after the header line.
MaxLines == 2

(* ------------------------------ text ---------------------------------- *)

Digits == {"0", "1", "2", "3", "4", "5", "6", "7", "8", "9"}

Whitespace == {" ", "\t", "\n"}

\* Python's None, for a variable that otherwise holds a string, a piece of
\* text, or an ABI.
None == "None"
NoText == <<>>
NoAbi == <<"None">>

\* str.strip(): leading and trailing whitespace removed.
RECURSIVE LStrip(_)
LStrip(s) == IF s # <<>> /\ Head(s) \in Whitespace THEN LStrip(Tail(s)) ELSE s

RECURSIVE RStrip(_)
RStrip(s) ==
    IF s # <<>> /\ s[Len(s)] \in Whitespace
    THEN RStrip(SubSeq(s, 1, Len(s) - 1))
    ELSE s

Strip(s) == RStrip(LStrip(s))

\* str.isdigit() on ASCII text: non-empty and every character a digit.
IsDigit(s) == s # <<>> /\ \A i \in 1..Len(s) : s[i] \in Digits

DigitValue(c) ==
    CASE c = "0" -> 0 [] c = "1" -> 1 [] c = "2" -> 2 [] c = "3" -> 3
      [] c = "4" -> 4 [] c = "5" -> 5 [] c = "6" -> 6 [] c = "7" -> 7
      [] c = "8" -> 8 [] c = "9" -> 9

\* int(s) for a string of decimal digits.
RECURSIVE ParseInt(_)
ParseInt(s) ==
    IF s = <<>> THEN 0
    ELSE 10 * ParseInt(SubSeq(s, 1, Len(s) - 1)) + DigitValue(s[Len(s)])

\* The first position at or after i that holds no digit (Len(s) + 1 if none).
RECURSIVE SkipDigits(_, _)
SkipDigits(s, i) ==
    IF i <= Len(s) /\ s[i] \in Digits THEN SkipDigits(s, i + 1) ELSE i

\* 'needle in haystack' for two pieces of text.
Contains(haystack, needle) ==
    \E i \in 0..(Len(haystack) - Len(needle)) :
        SubSeq(haystack, i + 1, i + Len(needle)) = needle

(* --------------------------- pure functions --------------------------- *)

\* re.match(r'^\d+\.\d+\.\d+$', version): '$' matches at the end of the
\* text and also just before a newline that ends it.
RegexMatchesVersion(version) ==
    LET a == SkipDigits(version, 1)
        b == SkipDigits(version, a + 1)
        c == SkipDigits(version, b + 1)
    IN  /\ a > 1
        /\ a <= Len(version) /\ version[a] = "."
        /\ b > a + 1
        /\ b <= Len(version) /\ version[b] = "."
        /\ c > b + 1
        /\ \/ c = Len(version) + 1
           \/ c = Len(version) /\ version[c] = "\n"

validate_frida_version(version) == RegexMatchesVersion(version)

valid_archs == {"android-arm64", "android-arm", "android-x86_64", "android-x86"}

validate_frida_arch(arch) == arch \in valid_archs

\* ABI strings, as text.
Abi_arm64_v8a   == <<"a", "r", "m", "6", "4", "-", "v", "8", "a">>
Abi_armeabi_v7a == <<"a", "r", "m", "e", "a", "b", "i", "-", "v", "7", "a">>
Abi_armeabi     == <<"a", "r", "m", "e", "a", "b", "i">>
Abi_x86_64      == <<"x", "8", "6", "_", "6", "4">>
Abi_x86         == <<"x", "8", "6">>
Abi_arm64       == <<"a", "r", "m", "6", "4">>
Abi_arm         == <<"a", "r", "m">>
Abi_mips        == <<"m", "i", "p", "s">>

\* Mutant of map_abi_to_frida_arch: the table lacks the armeabi entry.
map_abi_to_frida_arch_NoArmeabi(abi) ==
    CASE abi = Abi_arm64_v8a   -> "android-arm64"
      [] abi = Abi_armeabi_v7a -> "android-arm"
      [] abi = Abi_x86_64      -> "android-x86_64"
      [] abi = Abi_x86         -> "android-x86"
      [] OTHER                 -> "android-arm64"

map_abi_to_frida_arch(abi) ==
    CASE abi = Abi_arm64_v8a   -> "android-arm64"
      [] abi = Abi_armeabi_v7a -> "android-arm"
      [] abi = Abi_armeabi     -> "android-arm"
      [] abi = Abi_x86_64      -> "android-x86_64"
      [] abi = Abi_x86         -> "android-x86"
      [] OTHER                 -> "android-arm64"

expected_abi_keywords(arch) ==
    CASE arch = "android-arm64"  -> Abi_arm64
      [] arch = "android-arm"    -> Abi_arm
      [] arch = "android-x86_64" -> Abi_x86_64
      [] arch = "android-x86"    -> Abi_x86
      [] OTHER                   -> <<>>

\* The mismatch warning of the fixed-architecture branch.
MismatchWarning(arch, device_abi) ==
    LET expected_keyword == expected_abi_keywords(arch)
    IN  expected_keyword # <<>> /\ ~Contains(device_abi, expected_keyword)

\* The download URL and the compressed cache path, from the fixed templates.
FridaUrl(ver, arch) ==
    <<"https://github.com/frida/frida/releases/download/", ver,
      "/frida-server-", ver, "-", arch, ".xz">>

LocalXz(ver, arch) == <<"../tmp/", "frida-server-", ver, "-", arch, ".xz">>

(* ------------------------------ inputs -------------------------------- *)

Ver_17_5_2      == <<"1", "7", ".", "5", ".", "2">>
Ver_17_5_2_nl   == <<"1", "7", ".", "5", ".", "2", "\n">>
Ver_17_5        == <<"1", "7", ".", "5">>
Ver_17_5_2_1    == <<"1", "7", ".", "5", ".", "2", ".", "1">>
Ver_abc         == <<"a", "b", "c">>
Ver_v17_5_2     == <<"v", "1", "7", ".", "5", ".", "2">>

\* Values of --frida-version the operator may give.
VersionArgs ==
    {Ver_17_5_2, Ver_17_5_2_nl, Ver_17_5, Ver_17_5_2_1, Ver_abc, Ver_v17_5_2, <<>>}

\* Values of --frida-arch: None when the flag is absent.
ArchArgs == {None, "", "android-arm", "android-x86_64", "arm64", "android-mips"}

\* What the operator types at the main menu (after strip).
MenuChoices == {"1", "2", "3", "4", "9"}

\* Exit codes of an external command.
ExitCodes == {0, 1}

\* What 'getprop ro.product.cpu.abi' prints (after strip).
AbiOutputs ==
    {Abi_arm64_v8a, Abi_armeabi_v7a, Abi_armeabi, Abi_x86_64, Abi_x86,
     Abi_arm64, Abi_arm, Abi_mips, <<>>}

Serials == {"emulator-5554", "R58N"}

\* A line of the 'adb devices' output is the sequence of its
\* whitespace-delimited tokens (what line.strip().split() returns).
HeaderLine == <<"List", "of", "devices", "attached">>

DeviceLines ==
    {<<>>}
    \cup {<<s>> : s \in Serials}
    \cup {<<s, st>> : s \in Serials, st \in {"device", "offline", "unauthorized"}}
    \cup {<<s, "device", "usb:1-1">> : s \in Serials}

\* The first line is never blank: the bridge always prints its header first.
Headers == {HeaderLine, <<"emulator-5554", "device">>}

AdbOutputs ==
    {<<h>> \o body : h \in Headers,
                     body \in UNION {[1..n -> DeviceLines] : n \in 0..MaxLines}}

\* What the operator types at the device prompt (before strip).
Choices ==
    {<<"0">>, <<"1">>, <<"2">>, <<"3">>, <<"5">>, <<"0", "0">>, <<"0", "1">>,
     <<" ", "2", " ">>, <<"1", "0">>, <<"-", "1">>, <<"x">>, <<"1", "x">>, <<>>}

TempPem == "temp.pem"
HashFile == "<hash>.0"

\* The decompressed artifact of an earlier run, when the cache holds one.
EarlierArtifact == <<Ver_17_5_2, "android-arm64">>
NoFile == <<>>
Partial == <<"partial">>

(* ------------------------- device enumeration ------------------------- *)

RECURSIVE DropLeadingBlank(_)
DropLeadingBlank(lines) ==
    IF lines # <<>> /\ Head(lines) = <<>> THEN DropLeadingBlank(Tail(lines)) ELSE lines

RECURSIVE DropTrailingBlank(_)
DropTrailingBlank(lines) ==
    IF lines # <<>> /\ lines[Len(lines)] = <<>>
    THEN DropTrailingBlank(SubSeq(lines, 1, Len(lines) - 1))
    ELSE lines

\* result.stdout.strip().split('\n'): the blank lines at both ends go; text
\* that is all whitespace still splits into one (empty) line.
StrippedLines(stdout) ==
    LET kept == DropTrailingBlank(DropLeadingBlank(stdout))
    IN  IF kept = <<>> THEN << <<>> >> ELSE kept

RECURSIVE DevicesOf(_)
DevicesOf(lines) ==
    IF lines = <<>> THEN <<>>
    ELSE LET parts == Head(lines)
         IN  (IF Len(parts) >= 2 /\ parts[2] = "device" THEN <<parts[1]>> ELSE <<>>)
             \o DevicesOf(Tail(lines))

\* Mutant of ListDevices: the header line is not skipped.
ListDevices_KeepsFirstLine(stdout) == DevicesOf(StrippedLines(stdout))

\* choose_device, the listing: the first line is skipped.
ListDevices(stdout) == DevicesOf(Tail(StrippedLines(stdout)))

\* Mutant of SelectDevices: the range test excludes the last device.
SelectDevices_ExcludesLast(devs, typed) ==
    LET c == Strip(typed)
    IN  IF c = <<"0">> THEN devs
        ELSE IF IsDigit(c) /\ 1 <= ParseInt(c) /\ ParseInt(c) < Len(devs)
             THEN <<devs[ParseInt(c)]>>
             ELSE <<>>

\* choose_device, the selection.
SelectDevices(devs, typed) ==
    LET c == Strip(typed)
    IN  IF c = <<"0">> THEN devs
        ELSE IF IsDigit(c) /\ 1 <= ParseInt(c) /\ ParseInt(c) <= Len(devs)
             THEN <<devs[ParseInt(c)]>>
             ELSE <<>>

(* ------------------------------- state -------------------------------- *)

VARIABLES
    pc,                \* where the process is
    exitStatus,        \* the process exit status: {} while it runs, then {0} or {1}
    args,              \* the parsed command line
    CERT_FILE, FRIDA_VER, FRIDA_ARCH, FRIDA_URL, LOCAL_XZ, AUTO_DETECT_ARCH,
    menuShown,         \* show_menu has printed the menu
    module,            \* the menu operation that was started
    raised,            \* what reached a handler of main: none, error, interrupt
    files,             \* temporary files present in the working directory
    hash_name,         \* push_burp_cert's local, None while unassigned
    stdout,            \* choose_device: output of 'adb devices'
    devices,           \* choose_device: the listed devices
    choice,            \* choose_device: what the operator typed
    selected,          \* run_frida_server: the selection
    idx,               \* position in selected of the device being handled
    device_abi,        \* setup_frida_server: the ABI the device reported
    returncode,        \* setup_frida_server: exit code of the elevated launch, {} before it
    warned,            \* the mismatch warning was printed for this device
    steps,             \* commands issued for the current device, in order
    attempt,           \* how the current device's deployment stands
    allNonzero,        \* every best-effort command for this device exited non-zero
    localBin,          \* content of the decompressed cache file
    fetchCount,        \* downloads performed
    hitFetches,        \* downloads performed while the cache held the artifact
    fetched            \* the last download: <<url, file written>>, <<>> before it

config == <<CERT_FILE, FRIDA_VER, FRIDA_ARCH, FRIDA_URL, LOCAL_XZ, AUTO_DETECT_ARCH>>

certVars == <<files, hash_name>>

chooseVars == <<stdout, devices, choice>>

deviceVars == <<device_abi, returncode, warned, steps, attempt, allNonzero>>

cacheVars == <<localBin, fetchCount, hitFetches, fetched>>

vars == <<pc, exitStatus, args, config, menuShown, module, raised, certVars,
          chooseVars, selected, idx, deviceVars, cacheVars>>

Init ==
    /\ pc = "start"
    /\ exitStatus = {}
    /\ args \in [frida_version : VersionArgs, frida_arch : ArchArgs,
                 cert_file : {"./burp.cer"}, auto_detect_arch : BOOLEAN]
    /\ CERT_FILE = None
    /\ FRIDA_VER = NoText
    /\ FRIDA_ARCH = None
    /\ FRIDA_URL = NoText
    /\ LOCAL_XZ = NoText
    /\ AUTO_DETECT_ARCH = FALSE
    /\ menuShown = FALSE
    /\ module = None
    /\ raised = "none"
    /\ files = {}
    /\ hash_name = None
    /\ stdout = <<>>
    /\ devices = <<>>
    /\ choice = <<>>
    /\ selected = <<>>
    /\ idx = 0
    /\ device_abi = NoAbi
    /\ returncode = {}
    /\ warned = FALSE
    /\ steps = <<>>
    /\ attempt = "none"
    /\ allNonzero = TRUE
    /\ localBin \in {NoFile, EarlierArtifact}
    /\ fetchCount = 0
    /\ hitFetches = 0
    /\ fetched = <<>>

(* ------------------------- process boundaries ------------------------- *)

\* sys.exit(status), or the interpreter ending after main returned.
Exit(status) ==
    /\ pc' = "exited"
    /\ exitStatus' = {status}
    /\ UNCHANGED raised

\* An exception of class Exception leaves the operation: main's handler
\* (line 716) is the nearest one that catches it.
Raise ==
    /\ pc' = "main_exc"
    /\ raised' = "error"
    /\ UNCHANGED exitStatus

\* The operation returns to main, main returns, the process ends.
Return == Exit(0)

Goto(next) ==
    /\ pc' = next
    /\ UNCHANGED <<exitStatus, raised>>

\* Positions inside the try block of main.
BurpPcs ==
    {"b_check", "b_der", "b_pem", "b_hash", "b_rename", "b_root", "b_remount",
     "b_push", "b_chmod", "b_reboot", "b_except"}

AfterPushPcs ==
    {"sf_chmod", "sf_kill_su", "sf_kill", "sf_setenforce", "sf_root",
     "sf_launch_su", "sf_launch", "sf_verify"}

SetupPcs ==
    {"sf_getprop", "sf_resolve", "sf_download", "sf_extract", "sf_push"}
    \cup AfterPushPcs

FridaPcs == {"rf_check", "cd_list", "cd_prompt", "rf_selected", "rf_frida_ps"} \cup SetupPcs

TryPcs == {"menu", "menu_input", "install"} \cup BurpPcs \cup FridaPcs

(* -------------------------------- main -------------------------------- *)

\* main, from parsing the arguments to printing the configuration.
Startup ==
    LET given == args.frida_arch \notin {None, ""}    \* 'if args.frida_arch:'
        arch  == IF given THEN args.frida_arch ELSE "android-arm64"
        auto  == IF given THEN args.auto_detect_arch ELSE TRUE
    IN  /\ pc = "start"
        /\ IF ~validate_frida_version(args.frida_version)
           THEN /\ Exit(1)
                /\ UNCHANGED config
           ELSE /\ CERT_FILE' = args.cert_file
                /\ FRIDA_VER' = args.frida_version
                /\ IF given /\ ~validate_frida_arch(args.frida_arch)
                   THEN /\ Exit(1)
                        /\ AUTO_DETECT_ARCH' = args.auto_detect_arch
                        /\ UNCHANGED <<FRIDA_ARCH, FRIDA_URL, LOCAL_XZ>>
                   ELSE /\ Goto("menu")
                        /\ AUTO_DETECT_ARCH' = auto
                        /\ FRIDA_ARCH' = arch
                        /\ FRIDA_URL' = FridaUrl(args.frida_version, arch)
                        /\ LOCAL_XZ' = LocalXz(args.frida_version, arch)
        /\ UNCHANGED <<args, menuShown, module, certVars, chooseVars, selected,
                       idx, deviceVars, cacheVars>>

\* show_menu prints the menu and waits for the operator.
ShowMenu ==
    /\ pc = "menu"
    /\ menuShown' = TRUE
    /\ Goto("menu_input")
    /\ UNCHANGED <<args, config, module, certVars, chooseVars, selected, idx,
                   deviceVars, cacheVars>>

\* The operator's choice is read and main dispatches on it.
MenuChoice ==
    /\ pc = "menu_input"
    /\ \E c \in MenuChoices :
          CASE c = "1" -> Goto("b_check") /\ module' = "push_burp_cert"
            [] c = "2" -> Goto("rf_check") /\ module' = "run_frida_server"
            [] c = "3" -> Goto("install") /\ module' = "install_tools"
            [] OTHER   -> Return /\ UNCHANGED module
    /\ UNCHANGED <<args, config, menuShown, certVars, chooseVars, selected,
                   idx, deviceVars, cacheVars>>

\* install_tools: it reports, may install, and returns.
InstallTools ==
    /\ pc = "install"
    /\ Return
    /\ UNCHANGED <<args, config, menuShown, module, certVars, chooseVars,
                   selected, idx, deviceVars, cacheVars>>

\* The operator interrupts the process before main has entered its try
\* block: KeyboardInterrupt reaches the handler of __main__.
InterruptStartup ==
    /\ pc = "start"
    /\ Goto("top_kbd")
    /\ UNCHANGED <<args, config, menuShown, module, certVars, chooseVars,
                   selected, idx, deviceVars, cacheVars>>

\* The operator interrupts the menu or the running operation.
\* KeyboardInterrupt is no Exception: no 'except Exception' clause on the way
\* catches it, and main's KeyboardInterrupt handler (line 714) does.
Interrupt ==
    /\ pc \in TryPcs
    /\ pc' = "main_kbd"
    /\ raised' = "interrupt"
    /\ UNCHANGED <<exitStatus, args, config, menuShown, module, certVars,
                   chooseVars, selected, idx, deviceVars, cacheVars>>

\* main's 'except KeyboardInterrupt': a notice, then main returns.
MainKeyboardInterrupt ==
    /\ pc = "main_kbd"
    /\ Exit(0)
    /\ UNCHANGED <<args, config, menuShown, module, certVars, chooseVars,
                   selected, idx, deviceVars, cacheVars>>

\* main's 'except Exception': the error is printed, then main returns.
MainException ==
    /\ pc = "main_exc"
    /\ Exit(0)
    /\ UNCHANGED <<args, config, menuShown, module, certVars, chooseVars,
                   selected, idx, deviceVars, cacheVars>>

\* The 'except KeyboardInterrupt' of __main__: a notice and sys.exit(1).
TopKeyboardInterrupt ==
    /\ pc = "top_kbd"
    /\ Exit(1)
    /\ UNCHANGED <<args, config, menuShown, module, certVars, chooseVars,
                   selected, idx, deviceVars, cacheVars>>

(* --------------------------- push_burp_cert --------------------------- *)

burpFrame == <<args, config, menuShown, module, chooseVars, selected, idx,
               deviceVars, cacheVars>>

\* The tool checks and the certificate check before the try block.
BurpCheck ==
    /\ pc = "b_check"
    /\ \E adb \in BOOLEAN, openssl \in BOOLEAN, cert \in BOOLEAN :
          IF adb /\ openssl /\ cert THEN Goto("b_der") ELSE Return
    /\ UNCHANGED <<certVars, burpFrame>>

\* openssl x509 -inform DER ... -out temp.pem, check=False. openssl that
\* fails may or may not have created the output file.
BurpDer ==
    /\ pc = "b_der"
    /\ \E rc \in ExitCodes :
          IF rc = 0
          THEN /\ files' = files \cup {TempPem}
               /\ Goto("b_hash")
          ELSE /\ files' \in {files, files \cup {TempPem}}
               /\ Goto("b_pem")
    /\ UNCHANGED <<hash_name, burpFrame>>

\* openssl x509 -inform PEM ... -out temp.pem, check=True.
BurpPem ==
    /\ pc = "b_pem"
    /\ \E rc \in ExitCodes :
          IF rc = 0
          THEN /\ files' = files \cup {TempPem}
               /\ Goto("b_hash")
          ELSE /\ files' \in {files, files \cup {TempPem}}
               /\ Goto("b_except")
    /\ UNCHANGED <<hash_name, burpFrame>>

\* openssl x509 -subject_hash_old, check=True; hash_name is assigned.
BurpHash ==
    /\ pc = "b_hash"
    /\ \E rc \in ExitCodes :
          IF rc = 0
          THEN hash_name' = HashFile /\ Goto("b_rename")
          ELSE UNCHANGED hash_name /\ Goto("b_except")
    /\ UNCHANGED <<files, burpFrame>>

\* temp_pem.rename(hash_path).
BurpRename ==
    /\ pc = "b_rename"
    /\ files' = (files \ {TempPem}) \cup {hash_name}
    /\ Goto("b_root")
    /\ UNCHANGED <<hash_name, burpFrame>>

\* adb root, check=False, and the one-second sleep.
BurpRoot ==
    /\ pc = "b_root"
    /\ \E rc \in ExitCodes : Goto("b_remount")
    /\ UNCHANGED <<certVars, burpFrame>>

\* adb remount, check=False.
BurpRemount ==
    /\ pc = "b_remount"
    /\ \E rc \in ExitCodes : Goto("b_push")
    /\ UNCHANGED <<certVars, burpFrame>>

\* adb push <hash>.0 to the device's certificate directory, check=True.
BurpPush ==
    /\ pc = "b_push"
    /\ \E rc \in ExitCodes : IF rc = 0 THEN Goto("b_chmod") ELSE Goto("b_except")
    /\ UNCHANGED <<certVars, burpFrame>>

\* adb shell chmod 644, check=True, then the clean-up of the success path.
BurpChmod ==
    /\ pc = "b_chmod"
    /\ \E rc \in ExitCodes :
          IF rc = 0
          THEN files' = files \ {hash_name} /\ Goto("b_reboot")
          ELSE UNCHANGED files /\ Goto("b_except")
    /\ UNCHANGED <<hash_name, burpFrame>>

\* adb reboot, check=True.
BurpReboot ==
    /\ pc = "b_reboot"
    /\ \E rc \in ExitCodes : IF rc = 0 THEN Return ELSE Goto("b_except")
    /\ UNCHANGED <<certVars, burpFrame>>

\* 'except Exception': the error is printed, temp.pem and, when hash_name
\* is assigned, the hash-named file are removed; push_burp_cert returns.
BurpExcept ==
    /\ pc = "b_except"
    /\ files' = files \ ({TempPem} \cup (IF hash_name # None THEN {hash_name} ELSE {}))
    /\ Return
    /\ UNCHANGED <<hash_name, burpFrame>>

(* -------------------------- run_frida_server -------------------------- *)

\* The loop of run_frida_server moves to the device at position i, or, past
\* the last selected device, prints the closing line and returns.
NextDevice(i) ==
    IF i <= Len(selected')
    THEN idx' = i /\ Goto("sf_getprop")
    ELSE UNCHANGED idx /\ Return

\* check_tool("adb") at the start of run_frida_server.
FridaCheck ==
    /\ pc = "rf_check"
    /\ \E adb \in BOOLEAN : IF adb THEN Goto("cd_list") ELSE Return
    /\ UNCHANGED <<args, config, menuShown, module, certVars, chooseVars,
                   selected, idx, deviceVars, cacheVars>>

\* choose_device up to the prompt: 'adb devices' with check=True, the
\* device list built from its output, the early return on an empty list.
ChooseList ==
    /\ pc = "cd_list"
    /\ \E rc \in ExitCodes :
          IF rc # 0
          THEN Raise /\ UNCHANGED <<stdout, devices>>
          ELSE \E out \in AdbOutputs :
                  /\ stdout' = out
                  /\ devices' = ListDevices(out)
                  /\ IF devices' = <<>> THEN Goto("rf_selected") ELSE Goto("cd_prompt")
    /\ UNCHANGED <<args, config, menuShown, module, certVars, choice,
                   selected, idx, deviceVars, cacheVars>>

\* choose_device from the prompt to its return: the value returned is
\* bound to 'selected' in run_frida_server.
ChoosePrompt ==
    /\ pc = "cd_prompt"
    /\ \E typed \in Choices :
          /\ choice' = typed
          /\ selected' = SelectDevices(devices, typed)
    /\ stdout' = <<>>
    /\ Goto("rf_selected")
    /\ UNCHANGED <<args, config, menuShown, module, certVars, devices, idx,
                   deviceVars, cacheVars>>

\* run_frida_server after choose_device returned: 'if not selected: return',
\* else the loop starts. The frame of choose_device is gone.
RunSelected ==
    /\ pc = "rf_selected"
    /\ stdout' = <<>>
    /\ devices' = <<>>
    /\ choice' = <<>>
    /\ UNCHANGED selected
    /\ NextDevice(1)
    /\ UNCHANGED <<args, config, menuShown, module, certVars, deviceVars,
                   cacheVars>>

\* After setup_frida_server returned: frida-ps -D serial when the tool is
\* there (check=False), then the next device.
FridaPs ==
    /\ pc = "rf_frida_ps"
    /\ \E tool \in BOOLEAN, rc \in ExitCodes :
          steps' = IF tool THEN Append(steps, "frida_ps") ELSE steps
    /\ UNCHANGED selected
    /\ NextDevice(idx + 1)
    /\ UNCHANGED <<args, config, menuShown, module, certVars, chooseVars,
                   device_abi, returncode, warned, attempt, allNonzero,
                   cacheVars>>

(* ------------------------- setup_frida_server ------------------------- *)

setupFrame == <<args, menuShown, module, certVars, chooseVars, selected, idx>>

\* A command run with check=False whose exit code the code never reads.
BestEffort(at, name, next) ==
    /\ pc = at
    /\ \E rc \in ExitCodes :
          /\ steps' = Append(steps, name)
          /\ allNonzero' = (allNonzero /\ rc # 0)
          /\ Goto(next)
    /\ UNCHANGED <<config, device_abi, returncode, warned, attempt, cacheVars, setupFrame>>

\* adb shell getprop ro.product.cpu.abi, run with check=True.
Getprop ==
    /\ pc = "sf_getprop"
    /\ steps' = <<"getprop">>
    /\ attempt' = "running"
    /\ allNonzero' = TRUE
    /\ warned' = FALSE
    /\ returncode' = {}
    /\ \E rc \in ExitCodes :
          IF rc # 0
          THEN Raise /\ UNCHANGED device_abi
          ELSE \E abi \in AbiOutputs : device_abi' = abi /\ Goto("sf_resolve")
    /\ UNCHANGED <<config, cacheVars, setupFrame>>

\* Mutant of ResolveArch: the architecture is detected in fixed mode too.
ResolveArch_AlwaysDetects ==
    /\ pc = "sf_resolve"
    /\ LET detected_arch == map_abi_to_frida_arch(device_abi)
       IN  /\ FRIDA_ARCH' = detected_arch
           /\ FRIDA_URL' = FridaUrl(FRIDA_VER, detected_arch)
           /\ LOCAL_XZ' = LocalXz(FRIDA_VER, detected_arch)
    /\ UNCHANGED <<device_abi, returncode>>
    /\ Goto("sf_download")
    /\ UNCHANGED <<CERT_FILE, FRIDA_VER, AUTO_DETECT_ARCH, warned, steps,
                   attempt, allNonzero, cacheVars, setupFrame>>

\* Mutant of ResolveArch: the detected architecture is stored but the URL and
\* the compressed cache path are left as they were.
ResolveArch_KeepsUrl ==
    /\ pc = "sf_resolve"
    /\ IF AUTO_DETECT_ARCH
       THEN /\ FRIDA_ARCH' = map_abi_to_frida_arch(device_abi)
            /\ UNCHANGED warned
       ELSE /\ warned' = MismatchWarning(FRIDA_ARCH, device_abi)
            /\ UNCHANGED FRIDA_ARCH
    /\ UNCHANGED <<device_abi, returncode, FRIDA_URL, LOCAL_XZ>>
    /\ Goto("sf_download")
    /\ UNCHANGED <<CERT_FILE, FRIDA_VER, AUTO_DETECT_ARCH, steps, attempt,
                   allNonzero, cacheVars, setupFrame>>

\* The architecture: detected from the ABI, with the URL and the compressed
\* cache path rebuilt, or the configured one, with the mismatch warning.
ResolveArch ==
    /\ pc = "sf_resolve"
    /\ IF AUTO_DETECT_ARCH
       THEN LET detected_arch == map_abi_to_frida_arch(device_abi)
            IN  /\ FRIDA_ARCH' = detected_arch
                /\ FRIDA_URL' = FridaUrl(FRIDA_VER, detected_arch)
                /\ LOCAL_XZ' = LocalXz(FRIDA_VER, detected_arch)
                /\ UNCHANGED warned
       ELSE /\ warned' = MismatchWarning(FRIDA_ARCH, device_abi)
            /\ UNCHANGED <<FRIDA_ARCH, FRIDA_URL, LOCAL_XZ>>
    /\ UNCHANGED <<device_abi, returncode>>
    /\ Goto("sf_download")
    /\ UNCHANGED <<CERT_FILE, FRIDA_VER, AUTO_DETECT_ARCH, steps, attempt,
                   allNonzero, cacheVars, setupFrame>>

\* Mutant of Download: a decompressed artifact already in the cache for the
\* requested (version, architecture) is reused without a fetch.
Download_ReusesCache ==
    /\ pc = "sf_download"
    /\ IF localBin = <<FRIDA_VER, FRIDA_ARCH>>
       THEN /\ Goto("sf_push")
            /\ UNCHANGED <<steps, attempt, fetchCount, hitFetches, fetched>>
       ELSE /\ steps' = Append(steps, "download")
            /\ fetchCount' = fetchCount + 1
            /\ fetched' = <<FRIDA_URL, LOCAL_XZ>>
            /\ UNCHANGED hitFetches
            /\ \E ok \in BOOLEAN :
                  IF ok
                  THEN UNCHANGED attempt /\ Goto("sf_extract")
                  ELSE attempt' = "download_failed" /\ Goto("rf_frida_ps")
    /\ UNCHANGED <<config, device_abi, returncode, warned, allNonzero, localBin, setupFrame>>

\* urlretrieve(FRIDA_URL, LOCAL_XZ): always called; a failure returns.
Download ==
    /\ pc = "sf_download"
    /\ steps' = Append(steps, "download")
    /\ fetched' = <<FRIDA_URL, LOCAL_XZ>>
    /\ fetchCount' = fetchCount + 1
    /\ hitFetches' = IF localBin = <<FRIDA_VER, FRIDA_ARCH>>
                     THEN hitFetches + 1 ELSE hitFetches
    /\ \E ok \in BOOLEAN :
          IF ok
          THEN UNCHANGED attempt /\ Goto("sf_extract")
          ELSE attempt' = "download_failed" /\ Goto("rf_frida_ps")
    /\ UNCHANGED <<config, device_abi, returncode, warned, allNonzero, localBin, setupFrame>>

\* LOCAL_XZ decompressed into LOCAL_BIN and made executable; a failure may
\* leave LOCAL_BIN truncated, and returns.
Extract ==
    /\ pc = "sf_extract"
    /\ steps' = Append(steps, "extract")
    /\ \E ok \in BOOLEAN :
          IF ok
          THEN /\ localBin' = <<FRIDA_VER, FRIDA_ARCH>>
               /\ UNCHANGED attempt
               /\ Goto("sf_push")
          ELSE /\ localBin' \in {localBin, Partial}
               /\ attempt' = "extract_failed"
               /\ Goto("rf_frida_ps")
    /\ UNCHANGED <<config, device_abi, returncode, warned, allNonzero, fetchCount,
                   hitFetches, fetched, setupFrame>>

\* Mutant of Push: the failure is reported but the function does not return.
Push_NoReturn ==
    /\ pc = "sf_push"
    /\ steps' = Append(steps, "push")
    /\ \E rc \in ExitCodes :
          /\ attempt' = IF rc # 0 THEN "push_failed" ELSE attempt
          /\ Goto("sf_chmod")
    /\ UNCHANGED <<config, device_abi, returncode, warned, allNonzero, cacheVars, setupFrame>>

\* adb push LOCAL_BIN REMOTE_BIN, check=False; a non-zero exit returns.
Push ==
    /\ pc = "sf_push"
    /\ steps' = Append(steps, "push")
    /\ \E rc \in ExitCodes :
          IF rc # 0
          THEN attempt' = "push_failed" /\ Goto("rf_frida_ps")
          ELSE UNCHANGED attempt /\ Goto("sf_chmod")
    /\ UNCHANGED <<config, device_abi, returncode, warned, allNonzero, cacheVars, setupFrame>>

\* adb shell chmod 755 REMOTE_BIN.
Chmod == BestEffort("sf_chmod", "chmod", "sf_kill_su")

\* adb shell su -c 'pkill -f REMOTE_BIN'.
KillSu == BestEffort("sf_kill_su", "kill_su", "sf_kill")

\* Mutant of Kill: the command runs with check=True, a non-zero exit raises.
Kill_Checked ==
    /\ pc = "sf_kill"
    /\ steps' = Append(steps, "kill")
    /\ \E rc \in ExitCodes :
          /\ allNonzero' = (allNonzero /\ rc # 0)
          /\ IF rc # 0 THEN Raise ELSE Goto("sf_setenforce")
    /\ UNCHANGED <<config, device_abi, returncode, warned, attempt, cacheVars, setupFrame>>

\* adb shell pkill -f REMOTE_BIN.
Kill == BestEffort("sf_kill", "kill", "sf_setenforce")

\* adb shell su -c 'setenforce 0'.
Setenforce == BestEffort("sf_setenforce", "setenforce", "sf_root")

\* adb root.
AdbRoot == BestEffort("sf_root", "root", "sf_launch_su")

\* Mutant of LaunchSu: the plain launch follows whatever the exit code was.
LaunchSu_AlwaysFallsBack ==
    /\ pc = "sf_launch_su"
    /\ steps' = Append(steps, "launch_su")
    /\ \E rc \in ExitCodes : returncode' = {rc} /\ Goto("sf_launch")
    /\ UNCHANGED <<config, device_abi, warned, attempt, allNonzero, cacheVars,
                   setupFrame>>

\* adb shell su -c 'nohup REMOTE_BIN ... &', check=False; the plain launch
\* follows only a non-zero exit.
LaunchSu ==
    /\ pc = "sf_launch_su"
    /\ steps' = Append(steps, "launch_su")
    /\ \E rc \in ExitCodes :
          /\ returncode' = {rc}
          /\ IF rc # 0 THEN Goto("sf_launch") ELSE Goto("sf_verify")
    /\ UNCHANGED <<config, device_abi, warned, attempt, allNonzero, cacheVars,
                   setupFrame>>

\* Mutant of Launch: the prior server is killed once more after the launch.
Launch_ThenKill ==
    /\ pc = "sf_launch"
    /\ steps' = Append(Append(steps, "launch"), "kill")
    /\ \E rc \in ExitCodes : Goto("sf_verify")
    /\ UNCHANGED <<config, device_abi, returncode, warned, attempt, allNonzero,
                   cacheVars, setupFrame>>

\* adb shell nohup REMOTE_BIN ... &, check=False.
Launch ==
    /\ pc = "sf_launch"
    /\ steps' = Append(steps, "launch")
    /\ \E rc \in ExitCodes : Goto("sf_verify")
    /\ UNCHANGED <<config, device_abi, returncode, warned, attempt, allNonzero, cacheVars,
                   setupFrame>>

\* The settle delay, then 'ps -A | grep -i frida-server', check=False: a
\* notice when it exits non-zero or prints nothing, else the process lines.
Verify ==
    /\ pc = "sf_verify"
    /\ steps' = Append(steps, "verify")
    /\ \E rc \in ExitCodes, printed \in BOOLEAN :
          attempt' = IF rc # 0 \/ ~printed THEN "unverified" ELSE "verified"
    /\ Goto("rf_frida_ps")
    /\ UNCHANGED <<config, device_abi, returncode, warned, allNonzero, cacheVars, setupFrame>>

(* --------------------------- specification ---------------------------- *)

Next ==
    \/ Startup
    \/ ShowMenu
    \/ MenuChoice
    \/ InstallTools
    \/ InterruptStartup
    \/ Interrupt
    \/ MainKeyboardInterrupt
    \/ MainException
    \/ TopKeyboardInterrupt
    \/ BurpCheck
    \/ BurpDer
    \/ BurpPem
    \/ BurpHash
    \/ BurpRename
    \/ BurpRoot
    \/ BurpRemount
    \/ BurpPush
    \/ BurpChmod
    \/ BurpReboot
    \/ BurpExcept
    \/ FridaCheck
    \/ ChooseList
    \/ ChoosePrompt
    \/ RunSelected
    \/ FridaPs
    \/ Getprop
    \/ ResolveArch
    \/ Download
    \/ Extract
    \/ Push
    \/ Chmod
    \/ KillSu
    \/ Kill
    \/ Setenforce
    \/ AdbRoot
    \/ LaunchSu
    \/ Launch
    \/ Verify

Spec == Init /\ [][Next]_vars

\* The process is sequential and every external command it waits for ends:
\* while a step is possible, the process (or the operator, by interrupting
\* it) takes one.
FairSpec == Spec /\ WF_vars(Next)

(* ------------------------------ claims -------------------------------- *)

InSteps(name) == \E i \in 1..Len(steps) : steps[i] = name

FailedAttempts == {"download_failed", "extract_failed", "push_failed"}

\* C1: in run_frida_server a failure of any step of setup_frida_server for
\* one device, the initial getprop query included, never ends the loop over
\* the selected devices: unless the operator interrupts, the operation ends
\* only after the last selected device has been handled.
C1_LoopNeverAborted ==
    (pc = "exited" /\ module = "run_frida_server" /\ raised # "interrupt")
        => idx = Len(selected)

\* C2: once the push has succeeded, whatever the exit codes of chmod, both
\* kill attempts, setenforce and adb root, setup_frida_server goes on to the
\* Launch step and then the Verify step and returns normally to
\* run_frida_server, unless the operator interrupts: the only way out of the
\* steps after the push is Verify's return, with the elevated launch issued
\* before it, and that return is always reached; a Verify that finds no
\* process returns the same way, the attempt completed but unverified.
C2_PushedReachesLaunchVerify ==
    /\ [][(pc \in AfterPushPcs /\ raised' # "interrupt") =>
            \/ pc' \in AfterPushPcs
            \/ /\ pc = "sf_verify"
               /\ pc' = "rf_frida_ps"
               /\ raised' = "none"
               /\ attempt' \in {"verified", "unverified"}
               /\ steps'[Len(steps')] = "verify"
               /\ \E i \in 1..Len(steps') : steps'[i] = "launch_su"]_vars
    /\ (pc = "sf_chmod") ~>
          \/ pc = "rf_frida_ps" /\ attempt \in {"verified", "unverified"}
          \/ raised = "interrupt"

\* C2 witness: every best-effort command exited non-zero, Verify found no
\* process, and setup_frida_server has returned to the loop.
C2_Witness ==
    /\ pc = "rf_frida_ps"
    /\ allNonzero
    /\ attempt = "unverified"
    /\ InSteps("setenforce")
    /\ InSteps("launch")
    /\ steps[Len(steps)] = "verify"

C4_FailureSkipsRestOfDevice ==
    /\ attempt = "download_failed" =>
          steps \in {<<"getprop", "download">>,
                     <<"getprop", "download", "frida_ps">>}
    /\ attempt = "extract_failed" =>
          steps \in {<<"getprop", "download", "extract">>,
                     <<"getprop", "download", "extract", "frida_ps">>}
    /\ attempt = "push_failed" =>
          steps \in {<<"getprop", "download", "extract", "push">>,
                     <<"getprop", "download", "extract", "push", "frida_ps">>}
    /\ attempt \in FailedAttempts =>
          /\ raised # "error"
          /\ pc \in {"rf_frida_ps", "sf_getprop", "main_kbd", "exited"}
          /\ (pc = "exited" /\ raised = "none") => idx = Len(selected)

\* C4 witness: the first device's push failed and the loop is at the second.
C4_Witness ==
    /\ attempt = "push_failed"
    /\ pc = "sf_getprop"
    /\ idx = 2

\* C5: after push_burp_cert has ended, by any outcome, neither temp.pem nor
\* the hash-named copy exists in the working directory.
C5_NoTempFilesLeft ==
    (pc = "exited" /\ module = "push_burp_cert") =>
        (TempPem \notin files /\ HashFile \notin files)

\* C6: the exit status is 0 on normal completion and on an operator
\* interrupt during the menu or the operation, and 1 on a startup validation
\* failure and whenever an error the operation did not handle reaches the top
\* level.
C6_ExitStatus ==
    pc = "exited" =>
        /\ raised = "error" => exitStatus = {1}
        /\ raised = "interrupt" => exitStatus = {0}
        /\ (raised = "none" /\ menuShown) => exitStatus = {0}
        /\ (raised = "none" /\ ~menuShown) => exitStatus = {1}

IsFullVersion(version) ==
    \E a \in 1..Len(version), b \in 1..Len(version) :
        /\ a < b
        /\ version[a] = "."
        /\ version[b] = "."
        /\ IsDigit(SubSeq(version, 1, a - 1))
        /\ IsDigit(SubSeq(version, a + 1, b - 1))
        /\ IsDigit(SubSeq(version, b + 1, Len(version)))

\* C8: with a version argument that is not digits.digits.digits in full, or
\* an explicit architecture argument outside the four canonical names, the
\* process exits 1 with the menu never shown and no module run.
C8_InvalidArgumentsExitBeforeMenu ==
    (\/ ~IsFullVersion(args.frida_version)
     \/ (args.frida_arch # None /\ args.frida_arch \notin valid_archs))
        => /\ pc \in {"start", "top_kbd", "exited"}
           /\ ~menuShown
           /\ module = None
           /\ pc = "exited" => exitStatus = {1}

\* The positions in 'body' of the lines whose second token is "device".
DeviceLineIndexes(body) ==
    {i \in 1..Len(body) : Len(body[i]) >= 2 /\ body[i][2] = "device"}

\* C9: the device list skips the first line of the 'adb devices' output and
\* holds, in output order, exactly the first tokens of the lines whose
\* second token is "device".
C9_DeviceListFromOutput ==
    stdout # <<>> =>
        LET body == Tail(stdout)
            I    == DeviceLineIndexes(body)
        IN  /\ Len(devices) = Cardinality(I)
            /\ \A i \in I : devices[Cardinality({j \in I : j <= i})] = body[i][1]

\* C9 witness: header, "emulator-5554 device", "R58N offline" lists exactly
\* emulator-5554.
C9_Witness ==
    /\ stdout = <<HeaderLine, <<"emulator-5554", "device">>, <<"R58N", "offline">>>>
    /\ devices = <<"emulator-5554">>
    /\ pc = "cd_prompt"

\* The number a typed choice denotes, as a set: empty when the choice is
\* not a number.
ChoiceNumber(typed) ==
    CASE typed = <<"0">>           -> {0}
      [] typed = <<"1">>           -> {1}
      [] typed = <<"2">>           -> {2}
      [] typed = <<"3">>           -> {3}
      [] typed = <<"5">>           -> {5}
      [] typed = <<"0", "0">>      -> {0}
      [] typed = <<"0", "1">>      -> {1}
      [] typed = <<" ", "2", " ">> -> {2}
      [] typed = <<"1", "0">>      -> {10}
      [] OTHER                     -> {}

\* C10: for a non-empty device list, "0" selects all devices in listed
\* order, a number k with 1 <= k <= n selects exactly the k-th, every other
\* choice selects nothing; with an empty selection no step is issued for any
\* device.
C10_Selection ==
    /\ (pc = "rf_selected" /\ devices # <<>>) =>
          LET inRange == ChoiceNumber(choice) \cap (1..Len(devices))
          IN  IF choice = <<"0">> THEN selected = devices
              ELSE IF inRange # {}
                   THEN \A k \in inRange : selected = <<devices[k]>>
                   ELSE selected = <<>>
    /\ selected = <<>> =>
          /\ steps = <<>>
          /\ idx = 0
          /\ fetchCount = 0
          /\ pc \notin SetupPcs \cup {"rf_frida_ps"}

\* C10 witness: two devices listed, "5" typed, nothing selected.
C10_Witness ==
    /\ pc = "rf_selected"
    /\ Len(devices) = 2
    /\ choice = <<"5">>
    /\ selected = <<>>

\* Positions of setup_frida_server after the architecture step.
ResolvedPcs == SetupPcs \ {"sf_getprop", "sf_resolve"}

\* The architecture the claim gives for the table's ABI strings.
TableArch(abi) ==
    IF abi = Abi_arm64_v8a THEN "android-arm64"
    ELSE IF abi \in {Abi_armeabi_v7a, Abi_armeabi} THEN "android-arm"
    ELSE IF abi = Abi_x86_64 THEN "android-x86_64"
    ELSE IF abi = Abi_x86 THEN "android-x86"
    ELSE "android-arm64"

\* C11 (as claimed): the resolver maps arm64-v8a, armeabi-v7a, armeabi,
\* x86_64, x86 to arm64, arm, arm, x86_64, x86, maps each of the keywords
\* arm64, arm, x86_64, x86 to the architecture of the same name, and maps
\* every other string to arm64.
C11_AbiResolver ==
    (AUTO_DETECT_ARCH /\ pc \in ResolvedPcs) =>
        FRIDA_ARCH = IF device_abi = Abi_arm THEN "android-arm"
                     ELSE TableArch(device_abi)

\* C11 (amended): the resolver maps the five table strings as claimed and
\* every other string to arm64; of the four keywords, arm64, x86_64 and x86
\* so map to the architecture of the same name, and arm, which is no entry
\* of the table, maps to arm64.
C11_AbiResolverArmDefaults ==
    (AUTO_DETECT_ARCH /\ pc \in ResolvedPcs) =>
        /\ FRIDA_ARCH = TableArch(device_abi)
        /\ device_abi = Abi_arm => FRIDA_ARCH = "android-arm64"

\* C11 witness: a device reported "arm" and was resolved to android-arm64.
C11_Witness ==
    /\ AUTO_DETECT_ARCH
    /\ pc = "sf_download"
    /\ device_abi = Abi_arm
    /\ FRIDA_ARCH = "android-arm64"

\* How many times the command called name was issued for the current device.
Issued(name) == Cardinality({k \in 1..Len(steps) : steps[k] = name})

\* C12: for the device being handled, the plain launch is issued if and only
\* if the elevated launch exited non-zero: after a zero exit the elevated
\* launch is the only launch command, after a non-zero exit the plain launch
\* is the very next command; the verify command directly follows the last
\* launch command, and once the elevated launch was issued the verify command
\* is issued unless the operator interrupts.
C12_LaunchFallback ==
    /\ [](/\ Issued("launch_su") <= 1 /\ Issued("launch") <= 1
          /\ returncode # {} <=> InSteps("launch_su")
          /\ InSteps("launch") => returncode \notin {{}, {0}}
          /\ returncode = {0} => ~InSteps("launch") /\ pc # "sf_launch"
          /\ (returncode \notin {{}, {0}} /\ ~InSteps("launch")) =>
                (pc = "sf_launch" \/ raised = "interrupt")
          /\ \A k \in 1..Len(steps) :
                steps[k] = "verify" =>
                   /\ k > 1
                   /\ steps[k - 1] = IF returncode = {0} THEN "launch_su"
                                     ELSE "launch")
    /\ (pc = "sf_launch_su") ~> (InSteps("verify") \/ raised = "interrupt")

\* C12 witness: one device was verified after an elevated launch that exited
\* zero, with no plain launch.
C12_Witness ==
    /\ pc = "rf_frida_ps"
    /\ returncode = {0}
    /\ Issued("launch_su") = 1
    /\ ~InSteps("launch")
    /\ InSteps("verify")

\* The commands of one device in the order the code issues them.
StepOrder ==
    <<"getprop", "download", "extract", "push", "chmod", "kill_su", "kill",
      "setenforce", "root", "launch_su", "launch", "verify", "frida_ps">>

Rank(name) == CHOOSE k \in 1..Len(StepOrder) : StepOrder[k] = name

\* The commands that may directly follow the command called name.
Successors(name) ==
    IF name = "push" THEN {"chmod", "frida_ps"}
    ELSE IF name \in {"chmod", "kill_su", "kill", "setenforce", "root"}
    THEN {StepOrder[Rank(name) + 1]}
    ELSE IF name = "launch_su" THEN {"launch", "verify"}
    ELSE IF name = "launch" THEN {"verify"}
    ELSE IF name = "verify" THEN {"frida_ps"}
    ELSE {StepOrder[k] : k \in (Rank(name) + 1)..Len(StepOrder)}

\* The deployment of the device whose commands are in steps has returned.
Finished == attempt \notin {"none", "running"}

\* C13: commands are issued one at a time for the device being handled, in
\* the order push, chmod, elevated kill, plain kill, setenforce, adb root,
\* launch, verify, so that no kill follows a launch; the loop moves from one
\* selected device to the next in selection order, only after the deployment
\* of the former has returned, and the first command of the next device is
\* issued only then.
C13_StrictlySequential ==
    /\ [](\A k \in 1..(Len(steps) - 1) :
             /\ Rank(steps[k]) < Rank(steps[k + 1])
             /\ steps[k + 1] \in Successors(steps[k])
             /\ steps[k] \in {"launch_su", "launch"} =>
                   steps[k + 1] \notin {"kill_su", "kill"})
    /\ [][/\ idx' # idx =>
                /\ idx' = idx + 1
                /\ selected' = selected
                /\ idx = 0 \/ (pc = "rf_frida_ps" /\ Finished)
          /\ steps' # steps =>
                \/ /\ pc = "sf_getprop"
                   /\ steps' = <<"getprop">>
                   /\ idx' = idx
                   /\ idx = 1 \/ Finished
                \/ /\ pc \in (SetupPcs \ {"sf_getprop"}) \cup {"rf_frida_ps"}
                   /\ \E name \in Successors(steps[Len(steps)]) :
                         steps' = Append(steps, name)]_vars

\* C13 witness: the second selected device went through every command from
\* push to verify after the first device's deployment had returned.
C13_Witness ==
    /\ idx = 2
    /\ pc = "rf_frida_ps"
    /\ \A name \in {"push", "chmod", "kill_su", "kill", "setenforce", "root",
                    "launch_su", "verify"} : InSteps(name)

\* The architecture C14 gives for the device being handled: resolved from
\* the ABI it reported in auto-detect mode, the configured one otherwise.
ChosenArch ==
    IF AUTO_DETECT_ARCH THEN map_abi_to_frida_arch(device_abi)
    ELSE args.frida_arch

\* C14: once the download step ran for the device being handled, whatever its
\* position in the selection, the URL fetched and the file written are the
\* templates filled with the version of the command line and the
\* architecture chosen for that device; in fixed mode a configured
\* architecture that mismatches the reported ABI gives the warning and the
\* download step still comes next, so a device whose deployment returned
\* after the warning has had its download.
C14_DownloadFollowsDevice ==
    /\ [](/\ InSteps("download") =>
                fetched = <<FridaUrl(args.frida_version, ChosenArch),
                            LocalXz(args.frida_version, ChosenArch)>>
          /\ warned => ~AUTO_DETECT_ARCH
          /\ (warned /\ pc = "rf_frida_ps") => InSteps("download"))
    /\ [][(/\ pc = "sf_resolve"
           /\ ~AUTO_DETECT_ARCH
           /\ MismatchWarning(args.frida_arch, device_abi)
           /\ raised' # "interrupt") => (pc' = "sf_download" /\ warned')]_vars

\* C14 witness: in auto-detect mode the second selected device downloaded the
\* artifact of its own architecture while the cache still held the artifact
\* extracted for a device of another architecture.
C14_Witness ==
    /\ AUTO_DETECT_ARCH
    /\ idx = 2
    /\ pc = "sf_extract"
    /\ fetchCount = 2
    /\ localBin = <<FRIDA_VER, "android-x86">>
    /\ FRIDA_ARCH = "android-arm"
    /\ fetched = <<FridaUrl(FRIDA_VER, "android-arm"),
                   LocalXz(FRIDA_VER, "android-arm")>>

=============================================================================
